---- MODULE Spec2Model ----
(***************************************************************************)
(* PR-description generator: the two service variants (main.py and         *)
(* pr_mpc_server.py) and the command-line client (client.py).              *)
(*                                                                         *)
(* Texts are sequences of tokens.  A token is one character of interest    *)
(* ("\n", " ", ":") or an atomic piece of text that the code only ever     *)
(* searches for as a whole ("commit", "[T]", "Jira ticket: T"); the token     *)
(* "<fence>" is the triple-backtick code fence.                              *)
(* None is the empty sequence <<>>, Some(v) is <<v>>.                      *)
(***************************************************************************)
EXTENDS Integers, Sequences, FiniteSets, TLC

VARIABLES
    \* ---- one POST /generate-pr request (Spec)
    variant,          \* which service handles the request: "main" or "mpc"
    history,          \* the commits git can list, oldest first, as subjects
    num_commits,      \* PRRequest.num_commits (0 is None)
    pc,               \* position of the request handler
    git,              \* how the git subprocess calls of get_commits ended
    commits,          \* what get_commits returned
    common_prefix,    \* main.py: None or Some(prefix)
    cleaned_commits,  \* main.py: subjects after prefix stripping
    commits_text,     \* main.py: the numbered commit lines of the prompt
    commit_text,      \* pr_mpc_server.py: the commit lines of the prompt
    attempt,          \* main.py: loop variable of the retry loop
    retry_delay,      \* main.py: delay of the next sleep
    outcomes,         \* outcome of every model.generate_content call so far
    sleeps,           \* argument of every time.sleep call so far
    status,           \* HTTP status of the response (0: not answered yet)
    \* ---- pr_mpc_server.py's post-processing of one LLM text (SpecServer)
    fpc,              \* position: "idle", "raw", "filtered", "rerun"
    raw,              \* response.text
    filtered,         \* what generate_pr_description returns
    refiltered,       \* the post-processing applied to its own output
    \* ---- one run of client.py after the service answered (SpecClient)
    cpc,              \* position: "idle", "fetched", "done", "rerun"
    description,      \* data['description'], the server's text
    jira_ticket,      \* args.jira_ticket: None or Some("T")
    template,         \* None, or Some(content of the file at args.template)
    output_file,      \* whether --output-file was given
    processed,        \* None or Some(processed_description, as first written)
    printed,          \* None or Some(text printed to stdout)
    file,             \* None or Some(content of the output file)
    file2,            \* None or Some(the file after a second client pass)
    \* ---- main.py's section extraction from one LLM text (SpecExtract)
    xpc,              \* position: "idle", "response", "returned", "failed"
    response_text,    \* response.text
    title,            \* PRResponse.title
    changes,          \* PRResponse.changes
    testing,          \* PRResponse.testing
    \* ---- one run of client.py from its command line on (SpecRun)
    rpc,              \* position of main
    env,              \* what the run meets: arguments, path, git, service
    exit_code,        \* exit code of the process (-1: still running)
    requests_sent,    \* number of requests.post calls so far
    fetched_description, \* None or Some(pr_description of main)
    out_file,         \* None or Some(content of the output file)
    stdout            \* None or Some(the description printed)

svars == <<variant, history, num_commits, pc, git, commits, common_prefix,
           cleaned_commits, commits_text, commit_text, attempt, retry_delay,
           outcomes, sleeps, status>>

fvars == <<fpc, raw, filtered, refiltered>>

cvars == <<cpc, description, jira_ticket, template, output_file, processed,
           printed, file, file2>>

xvars == <<xpc, response_text, title, changes, testing>>

rvars == <<rpc, env, exit_code, requests_sent, fetched_description, out_file,
           stdout>>

vars == <<svars, fvars, cvars, xvars, rvars>>

(***************************************************************************)
(* Bounds and input alphabets                                              *)
(***************************************************************************)
MaxCommits == 3

\* Commit subjects: "feat: a", "feat: b", "fix: c", "feat : d", ":e", "g",
\* "fix: h: i".
Subjects ==
    { <<"feat", ":", " ", "a">>, <<"feat", ":", " ", "b">>,
      <<"fix", ":", " ", "c">>, <<"feat", " ", ":", " ", "d">>,
      <<":", "e">>, <<"g">>, <<"fix", ":", " ", "h", ":", " ", "i">> }

RECURSIVE SeqsUpTo(_, _)
SeqsUpTo(S, n) ==
    IF n = 0 THEN { <<>> }
    ELSE LET shorter == SeqsUpTo(S, n - 1)
         IN  shorter \cup { Append(s, x) : s \in shorter, x \in S }

NumCommitsValues == {0, 2}

LLMOutcomes == {"ok", "empty", "rate429", "error"}

(***************************************************************************)
(* Python string and list operations, on token sequences                   *)
(***************************************************************************)
Reverse(s) == [i \in 1..Len(s) |-> s[Len(s) + 1 - i]]

IsSpace(t) == t \in {" ", "\n"}

RECURSIVE LStrip(_)
LStrip(s) == IF s # <<>> /\ IsSpace(Head(s)) THEN LStrip(Tail(s)) ELSE s

RStrip(s) == Reverse(LStrip(Reverse(s)))

\* str.strip()
Strip(s) == RStrip(LStrip(s))

\* t in s
Contains(s, t) == \E i \in 1..Len(s) : s[i] = t

\* s.find(t) + 1: the first place of t in s, 0 when absent
IndexOf(s, t) ==
    IF Contains(s, t)
    THEN CHOOSE i \in 1..Len(s) : s[i] = t /\ \A j \in 1..(i - 1) : s[j] # t
    ELSE 0

\* s.startswith(p)
StartsWith(s, p) == Len(p) <= Len(s) /\ SubSeq(s, 1, Len(p)) = p

Min(S) == CHOOSE x \in S : \A y \in S : x <= y

(***************************************************************************)
(* get_commits                                                             *)
(***************************************************************************)
\* The commits git log selects, oldest first: all of them, or with -n N the
\* N most recent.
Selected(hist, n) ==
    IF n = 0 \/ n >= Len(hist) THEN hist
    ELSE SubSeq(hist, Len(hist) - n + 1, Len(hist))

\* stdout of git log: most recent first, oldest first with --reverse.
GitLog(hist, n, reverse) ==
    IF reverse THEN Selected(hist, n) ELSE Reverse(Selected(hist, n))

NonBlank(lines) == SelectSeq(lines, LAMBDA l : Strip(l) # <<>>)

\* main.py: the list built from stdout, then commits.reverse()
MainCommits(hist, n) == Reverse(NonBlank(GitLog(hist, n, FALSE)))

\* pr_mpc_server.py: git log --reverse, the list kept in output order
MpcCommits(hist, n) == NonBlank(GitLog(hist, n, TRUE))

(***************************************************************************)
(* main.py: prefix normalizer and prompt                                   *)
(***************************************************************************)
\* commit.split(":")[0].strip()
PrefixOf(commit) == Strip(SubSeq(commit, 1, IndexOf(commit, ":") - 1))

\* The prefixes counted into prefix_count, in the order they are met.
Candidates(cs) ==
    LET withColon == SelectSeq(cs, LAMBDA c : Contains(c, ":"))
    IN  [i \in 1..Len(withColon) |-> PrefixOf(withColon[i])]

\* prefix_count[p]
PrefixCount(cands, p) == Cardinality({i \in 1..Len(cands) : cands[i] = p})

\* The first key of prefix_count (a dict keeps insertion order) whose count
\* is above 1.
CommonPrefix(cs) ==
    LET cands == Candidates(cs)
        rep   == {i \in 1..Len(cands) : PrefixCount(cands, cands[i]) > 1}
    IN  IF rep = {} THEN <<>> ELSE << cands[Min(rep)] >>

\* Python truth value of an Optional[str]
Truthy(opt) == opt # <<>> /\ opt[1] # <<>>

\* commit.split(":", 1)[1].strip()
AfterFirstColon(commit) ==
    Strip(SubSeq(commit, IndexOf(commit, ":") + 1, Len(commit)))

CleanCommit(cp, commit) ==
    IF Truthy(cp) /\ StartsWith(commit, cp[1] \o <<":">>)
    THEN AfterFirstColon(commit)
    ELSE commit

CleanedCommits(cp, cs) == [i \in 1..Len(cs) |-> CleanCommit(cp, cs[i])]

\* Mutant of FormattedCommits: reversed() is forgotten.
FormattedCommits_NoReverse(cleaned) ==
    [i \in 1..Len(cleaned) |-> [num |-> i, text |-> cleaned[i]]]

\* enumerate(reversed(cleaned_commits), 1), each line "{i}. {commit}"
FormattedCommits(cleaned) ==
    LET r == Reverse(cleaned)
    IN  [i \in 1..Len(r) |-> [num |-> i, text |-> r[i]]]

\* pr_mpc_server.py: commit_messages, joined one per line
CommitMessages(cs) == cs

(***************************************************************************)
(* main.py: the retry loop                                                 *)
(***************************************************************************)
max_retries == 3

InitialRetryDelay == 30

\* Mutant of ShouldRetry: every exception is retried.
ShouldRetry_AnyError(outcome, att) == outcome # "ok" /\ att < max_retries - 1

\* "429" in str(e) and attempt < max_retries - 1
ShouldRetry(outcome, att) == outcome = "rate429" /\ att < max_retries - 1

\* Mutant of NextDelay: the delay is not doubled.
NextDelay_NoBackoff(d) == d

\* retry_delay *= 2
NextDelay(d) == d * 2

(***************************************************************************)
(* The request handlers                                                    *)
(***************************************************************************)
SInit ==
    /\ variant \in {"main", "mpc"}
    /\ history \in SeqsUpTo(Subjects, MaxCommits)
    /\ num_commits \in NumCommitsValues
    /\ pc = "get_commits"
    /\ git = "pending"
    /\ commits = <<>>
    /\ common_prefix = <<>>
    /\ cleaned_commits = <<>>
    /\ commits_text = <<>>
    /\ commit_text = <<>>
    /\ attempt = 0
    /\ retry_delay = InitialRetryDelay
    /\ outcomes = <<>>
    /\ sleeps = <<>>
    /\ status = 0

Respond(code) == pc' = "done" /\ status' = code

\* main.py get_commits: every HTTPException(400) it raises is caught by its
\* own "except Exception" and raised again with status 500.
GetCommitsMain ==
    /\ variant = "main" /\ pc = "get_commits"
    /\ \E g \in {"ok", "fail"} :
         LET cs == MainCommits(history, num_commits)
         IN  /\ git' = g
             /\ IF g = "fail" \/ cs = <<>>
                THEN Respond(500) /\ UNCHANGED commits
                ELSE pc' = "build_prompt" /\ commits' = cs /\ UNCHANGED status
    /\ UNCHANGED <<variant, history, num_commits, common_prefix,
                   cleaned_commits, commits_text, commit_text, attempt,
                   retry_delay, outcomes, sleeps>>
    /\ UNCHANGED <<fvars, cvars, xvars, rvars>>

\* pr_mpc_server.py get_commits: an exception becomes HTTPException(400),
\* which generate_pr catches and answers with 500; an empty list is returned
\* as it is.
GetCommitsMpc ==
    /\ variant = "mpc" /\ pc = "get_commits"
    /\ \E g \in {"ok", "raise"} :
         /\ git' = g
         /\ IF g = "raise"
            THEN Respond(500) /\ UNCHANGED commits
            ELSE /\ pc' = "build_prompt"
                 /\ commits' = MpcCommits(history, num_commits)
                 /\ UNCHANGED status
    /\ UNCHANGED <<variant, history, num_commits, common_prefix,
                   cleaned_commits, commits_text, commit_text, attempt,
                   retry_delay, outcomes, sleeps>>
    /\ UNCHANGED <<fvars, cvars, xvars, rvars>>

BuildPromptMain ==
    /\ variant = "main" /\ pc = "build_prompt"
    /\ common_prefix' = CommonPrefix(commits)
    /\ cleaned_commits' = CleanedCommits(common_prefix', commits)
    /\ commits_text' = FormattedCommits(cleaned_commits')
    /\ pc' = "generate"
    /\ UNCHANGED <<variant, history, num_commits, git, commits, commit_text,
                   attempt, retry_delay, outcomes, sleeps, status>>
    /\ UNCHANGED <<fvars, cvars, xvars, rvars>>

BuildPromptMpc ==
    /\ variant = "mpc" /\ pc = "build_prompt"
    /\ commit_text' = CommitMessages(commits)
    /\ pc' = "generate"
    /\ UNCHANGED <<variant, history, num_commits, git, commits, common_prefix,
                   cleaned_commits, commits_text, attempt, retry_delay,
                   outcomes, sleeps, status>>
    /\ UNCHANGED <<fvars, cvars, xvars, rvars>>

\* main.py: one pass of "for attempt in range(max_retries)".
AttemptMain ==
    /\ variant = "main" /\ pc = "generate" /\ attempt < max_retries
    /\ \E outcome \in LLMOutcomes :
         /\ outcomes' = Append(outcomes, outcome)
         /\ IF outcome = "ok"
            THEN Respond(200) /\ UNCHANGED <<attempt, retry_delay, sleeps>>
            ELSE IF ShouldRetry(outcome, attempt)
            THEN /\ sleeps' = Append(sleeps, retry_delay)
                 /\ retry_delay' = NextDelay(retry_delay)
                 /\ attempt' = attempt + 1
                 /\ UNCHANGED <<pc, status>>
            ELSE Respond(500) /\ UNCHANGED <<attempt, retry_delay, sleeps>>
    /\ UNCHANGED <<variant, history, num_commits, git, commits, common_prefix,
                   cleaned_commits, commits_text, commit_text>>
    /\ UNCHANGED <<fvars, cvars, xvars, rvars>>

\* pr_mpc_server.py: one LLM call, then generate_pr reads commits[-1].
GenerateMpc ==
    /\ variant = "mpc" /\ pc = "generate"
    /\ \E outcome \in LLMOutcomes :
         /\ outcomes' = Append(outcomes, outcome)
         /\ IF outcome \in {"ok", "empty"} /\ commits # <<>>
            THEN Respond(200)
            ELSE Respond(500)
    /\ UNCHANGED <<variant, history, num_commits, git, commits, common_prefix,
                   cleaned_commits, commits_text, commit_text, attempt,
                   retry_delay, sleeps>>
    /\ UNCHANGED <<fvars, cvars, xvars, rvars>>

SNext ==
    \/ GetCommitsMain
    \/ GetCommitsMpc
    \/ BuildPromptMain
    \/ BuildPromptMpc
    \/ AttemptMain
    \/ GenerateMpc

(***************************************************************************)
(* More Python text operations                                             *)
(***************************************************************************)
\* str.split('\n')
RECURSIVE SplitNL(_)
SplitNL(s) ==
    LET i == IndexOf(s, "\n")
    IN  IF i = 0 THEN <<s>>
        ELSE <<SubSeq(s, 1, i - 1)>> \o SplitNL(SubSeq(s, i + 1, Len(s)))

\* '\n'.join(lines)
RECURSIVE JoinNL(_)
JoinNL(lines) ==
    IF lines = <<>> THEN <<>>
    ELSE IF Len(lines) = 1 THEN lines[1]
    ELSE lines[1] \o <<"\n">> \o JoinNL(Tail(lines))

EndsWithNL(s) == s # <<>> /\ s[Len(s)] = "\n"

\* str.splitlines(): no line for an empty text, none after a final "\n"
SplitLines(s) ==
    IF s = <<>> THEN <<>>
    ELSE LET l == SplitNL(s)
         IN  IF EndsWithNL(s) THEN SubSeq(l, 1, Len(l) - 1) ELSE l

\* f.readlines(): as splitlines(), every line keeping its "\n"
ReadLines(s) ==
    LET l == SplitLines(s)
    IN  [i \in 1..Len(l) |->
            IF i < Len(l) \/ EndsWithNL(s) THEN l[i] \o <<"\n">> ELSE l[i]]

\* ''.join(lines), f.writelines(lines)
RECURSIVE Concat(_)
Concat(lines) == IF lines = <<>> THEN <<>> ELSE Head(lines) \o Concat(Tail(lines))

\* The length of the run of "\n" s starts with.
RECURSIVE NewlineRun(_)
NewlineRun(s) ==
    IF s # <<>> /\ Head(s) = "\n" THEN 1 + NewlineRun(Tail(s)) ELSE 0

\* re.sub(r'\n{3,}', '\n\n', s)
RECURSIVE CollapseNewlines(_)
CollapseNewlines(s) ==
    IF s = <<>> THEN <<>>
    ELSE LET run == NewlineRun(s)
         IN  IF run = 0 THEN <<Head(s)>> \o CollapseNewlines(Tail(s))
             ELSE SubSeq(s, 1, IF run >= 3 THEN 2 ELSE run)
                  \o CollapseNewlines(SubSeq(s, run + 1, Len(s)))

\* Some token of the line is in the set: pattern.search(line)
Matches(line, tokens) == \E i \in 1..Len(line) : line[i] \in tokens

\* The lines before the first one that matches: "for ...: if match: break"
RECURSIVE BeforeFirstMatch(_, _)
BeforeFirstMatch(lines, tokens) ==
    IF lines = <<>> \/ Matches(Head(lines), tokens) THEN <<>>
    ELSE <<Head(lines)>> \o BeforeFirstMatch(Tail(lines), tokens)

(***************************************************************************)
(* pr_mpc_server.py: post-processing of the LLM text                       *)
(***************************************************************************)
\* Tokens matched by (commit[s]?|diff|<fence>), case-insensitive.
ServerPatternTokens == {"commit", "diff", "<fence>"}

\* template_comment_pattern.search(line.strip()), with ^<!---.*-->$
IsTemplateComment(line) ==
    LET t == Strip(line)
    IN  Len(t) >= 2 /\ t[1] = "<!---" /\ t[Len(t)] = "-->"

\* cleaned_lines
RemoveTemplateComments(lines) ==
    SelectSeq(lines, LAMBDA l : ~IsTemplateComment(l))

\* Mutant of FilteredLinesFinal: a matching line is skipped, the loop goes on.
FilteredLinesFinal_Skip(lines) ==
    SelectSeq(lines, LAMBDA l : ~Matches(l, ServerPatternTokens))

\* filtered_lines_final
FilteredLinesFinal(lines) == BeforeFirstMatch(lines, ServerPatternTokens)

\* Lines 128-147, from pr_description to filtered.
ServerPostProcess(pr_description) ==
    LET cleaned == JoinNL(RemoveTemplateComments(SplitNL(pr_description)))
        kept    == JoinNL(FilteredLinesFinal(SplitNL(cleaned)))
    IN  Strip(CollapseNewlines(kept))

\* pr_description = response.text.strip(), then the post-processing.
ServerSanitize(text) == ServerPostProcess(Strip(text))

MaxRawLines == 4

\* Lines of an LLM text: blank, whitespace, plain text, lines the pattern
\* matches, a label the server pattern leaves alone, template comments
\* without and with a code fence.
RawLines ==
    { <<>>, <<" ">>, <<"a">>, <<"b">>, <<"commit">>, <<"Changes:">>,
      <<"<fence>">>, <<"<!---", "x", "-->">>, <<"<!---", "<fence>", "-->">> }

RawTexts == { JoinNL(ls) : ls \in SeqsUpTo(RawLines, MaxRawLines) }

FInit ==
    /\ fpc = "raw"
    /\ raw \in RawTexts
    /\ filtered = <<>>
    /\ refiltered = <<>>

ServerFilter ==
    /\ fpc = "raw"
    /\ filtered' = ServerSanitize(raw)
    /\ fpc' = "filtered"
    /\ UNCHANGED <<raw, refiltered>>
    /\ UNCHANGED <<svars, cvars, xvars, rvars>>

\* The post-processing applied once more, to what it returned.
ServerRefilter ==
    /\ fpc = "filtered"
    /\ refiltered' = ServerPostProcess(filtered)
    /\ fpc' = "rerun"
    /\ UNCHANGED <<raw, filtered>>
    /\ UNCHANGED <<svars, cvars, xvars, rvars>>

FNext == ServerFilter \/ ServerRefilter

(***************************************************************************)
(* client.py: write_pr_description and clean_pr_description_file           *)
(***************************************************************************)
\* f'[{jira_ticket}]' and f'Jira ticket: {jira_ticket}', for the ticket "T"
jira_placeholder_from_model == "[T]"

final_jira_line == "Jira ticket: T"

\* line.replace(jira_placeholder_from_model, final_jira_line)
ReplacePlaceholder(line) ==
    [i \in 1..Len(line) |->
        IF line[i] = jira_placeholder_from_model THEN final_jira_line
        ELSE line[i]]

\* str.lower(), on the tokens whose case the code looks at
Lower(line) ==
    [i \in 1..Len(line) |->
        IF line[i] \in {"## Description", "## DESCRIPTION"}
        THEN "## description"
        ELSE line[i]]

\* line.strip().lower().startswith('## description')
IsDescriptionHeading(line) ==
    StartsWith(Lower(Strip(line)), <<"## description">>)

\* Mutant of DescIdx: the loop has no break and keeps the last heading.
DescIdx_Last(lines) ==
    LET found == {i \in 1..Len(lines) : IsDescriptionHeading(lines[i])}
    IN  IF found = {} THEN 0
        ELSE CHOOSE i \in found : \A j \in found : j <= i

\* desc_idx + 1: the place of the first heading line, 0 when there is none
DescIdx(lines) ==
    LET found == {i \in 1..Len(lines) : IsDescriptionHeading(lines[i])}
    IN  IF found = {} THEN 0 ELSE Min(found)

\* The loop over the lines: new_lines and jira_handled at its end.
RECURSIVE JiraLoop(_, _)
JiraLoop(lines, jira_handled) ==
    IF lines = <<>> THEN [new_lines |-> <<>>, jira_handled |-> jira_handled]
    ELSE LET line == Head(lines)
             placeholder == Contains(line, jira_placeholder_from_model)
             final == Contains(line, final_jira_line)
             kept == IF placeholder
                     THEN IF ~jira_handled THEN <<ReplacePlaceholder(line)>>
                          ELSE <<>>
                     ELSE IF final
                     THEN IF ~jira_handled THEN <<line>> ELSE <<>>
                     ELSE <<line>>
             rest == JiraLoop(Tail(lines), jira_handled \/ placeholder \/ final)
         IN  [new_lines |-> kept \o rest.new_lines,
              jira_handled |-> rest.jira_handled]

\* list.insert(k, x), k the number of elements before x
InsertAt(seq, k, x) ==
    LET n == IF k > Len(seq) THEN Len(seq) ELSE k
    IN  SubSeq(seq, 1, n) \o <<x>> \o SubSeq(seq, n + 1, Len(seq))

\* new_lines when the Jira step is over
JiraLines(lines) ==
    LET r == JiraLoop(lines, FALSE)
    IN  IF r.jira_handled THEN r.new_lines
        ELSE IF DescIdx(lines) # 0
        THEN InsertAt(r.new_lines, DescIdx(lines), <<final_jira_line>>)
        ELSE InsertAt(r.new_lines, 0, <<final_jira_line>>)

\* Mutant of ProcessedDescription: the Jira step runs without a ticket too.
ProcessedDescription_Always(desc, ticket) ==
    JoinNL(JiraLines(SplitLines(desc)))

\* processed_description
ProcessedDescription(desc, ticket) ==
    IF ticket # <<>> THEN JoinNL(JiraLines(SplitLines(desc))) ELSE desc

\* Tokens matched by (commit[s]?|diff|changes:|<fence>), case-insensitive:
\* the section label "If you have UI changes:" holds "changes:".
ClientPatternTokens ==
    {"commit", "diff", "Changes:", "<fence>", "If you have UI changes:"}

template_sections ==
    {"Request review criteria:", "Self checklist", "If you have UI changes:",
     "After the PR is posted & before it merges:"}

\* while lines and lines[-1].strip() == '': lines.pop()
RECURSIVE PopTrailingBlank(_)
PopTrailingBlank(lines) ==
    IF lines # <<>> /\ Strip(lines[Len(lines)]) = <<>>
    THEN PopTrailingBlank(SubSeq(lines, 1, Len(lines) - 1))
    ELSE lines

\* any(section in ''.join(lines) for section in template_sections)
SectionsPresent(lines) == Matches(Concat(lines), template_sections)

\* Mutant of NeedsTemplate: the sections are looked for in the template.
NeedsTemplate_InTemplate(lines, tmpl) ==
    tmpl # <<>> /\ ~Matches(tmpl[1], template_sections)

\* template_path and os.path.exists(template_path) and no section present
NeedsTemplate(lines, tmpl) == tmpl # <<>> /\ ~SectionsPresent(lines)

\* lines.append('\n' + template_content)
WithTemplate(lines, tmpl) ==
    IF NeedsTemplate(lines, tmpl)
    THEN Append(lines, <<"\n">> \o tmpl[1])
    ELSE lines

\* clean_pr_description_file: from the file's content to its new content
CleanPrDescriptionFile(content, tmpl) ==
    LET lines == BeforeFirstMatch(ReadLines(content), ClientPatternTokens)
    IN  Concat(WithTemplate(PopTrailingBlank(lines), tmpl))

\* write_pr_description: the content of the output file when it returns
WritePrDescription(desc, ticket, tmpl) ==
    CleanPrDescriptionFile(ProcessedDescription(desc, ticket), tmpl)

MaxDescLines == 3

\* Lines of a server text: blank, plain text, the placeholder once and
\* twice, the canonical Jira line, the heading, the heading indented and
\* in capitals, a line the pattern matches, a template section label.
DescLines ==
    { <<>>, <<"a">>, <<"[T]">>, <<"[T]", " ", "[T]">>, <<"Jira ticket: T">>,
      <<"## Description">>, <<" ", "## DESCRIPTION">>, <<"commit">>,
      <<"Self checklist">> }

DescTexts == { JoinNL(ls) : ls \in SeqsUpTo(DescLines, MaxDescLines) }

\* Template files: with a section label, without any, with the label that
\* the client pattern matches.
Templates ==
    { <<"Self checklist", "\n", "a", "\n">>, <<"a", "\n">>,
      <<"If you have UI changes:", "\n">> }

CInit ==
    /\ cpc = "fetched"
    /\ description \in DescTexts
    /\ jira_ticket \in { <<>>, <<"T">> }
    /\ template \in { <<>> } \cup { <<t>> : t \in Templates }
    /\ output_file \in BOOLEAN
    /\ processed = <<>>
    /\ printed = <<>>
    /\ file = <<>>
    /\ file2 = <<>>

\* main: print(pr_description)
ClientPrint ==
    /\ cpc = "fetched" /\ ~output_file
    /\ printed' = <<description>>
    /\ cpc' = "done"
    /\ UNCHANGED <<description, jira_ticket, template, output_file,
                   processed, file, file2>>
    /\ UNCHANGED <<svars, fvars, xvars, rvars>>

\* main: write_pr_description(args.output_file, pr_description, ...)
ClientWrite ==
    /\ cpc = "fetched" /\ output_file
    /\ processed' = <<ProcessedDescription(description, jira_ticket)>>
    /\ file' = <<CleanPrDescriptionFile(processed'[1], template)>>
    /\ cpc' = "done"
    /\ UNCHANGED <<description, jira_ticket, template, output_file, printed,
                   file2>>
    /\ UNCHANGED <<svars, fvars, xvars, rvars>>

\* write_pr_description once more, on the file it wrote, with the same
\* ticket and template.
ClientRewrite ==
    /\ cpc = "done" /\ output_file
    /\ file2' = <<WritePrDescription(file[1], jira_ticket, template)>>
    /\ cpc' = "rerun"
    /\ UNCHANGED <<description, jira_ticket, template, output_file,
                   processed, printed, file>>
    /\ UNCHANGED <<svars, fvars, xvars, rvars>>

CNext == ClientPrint \/ ClientWrite \/ ClientRewrite

(***************************************************************************)
(* main.py: the sections of the response (lines 212-243)                   *)
(***************************************************************************)
MaxTextLines == 4

\* lines[0].replace('# ', ''): "# " goes, also where it is the end of "##"
\* and the blank of a section marker.
RECURSIVE RemoveHashBlank(_)
RemoveHashBlank(line) ==
    IF line = <<>> THEN <<>>
    ELSE LET h == Head(line)
         IN  (IF h = "# " THEN <<>>
              ELSE IF h = "## Changes" THEN <<"#Changes">>
              ELSE IF h = "## Testing" THEN <<"#Testing">>
              ELSE <<h>>)
             \o RemoveHashBlank(Tail(line))

\* Mutant of ScannedLines: the loop runs over the first line too.
ScannedLines_All(lines) == lines

\* lines[1:]
ScannedLines(lines) == Tail(lines)

\* The loop over the lines: the section the scan is in (None at first) and
\* the two lists so far.
RECURSIVE ScanSections(_, _, _, _)
ScanSections(rest, current_section, ch, te) ==
    IF rest = <<>> THEN [changes |-> ch, testing |-> te]
    ELSE LET line == Head(rest)
         IN  IF StartsWith(line, <<"## Changes">>)
             THEN ScanSections(Tail(rest), <<"changes">>, ch, te)
             ELSE IF StartsWith(line, <<"## Testing">>)
             THEN ScanSections(Tail(rest), <<"testing">>, ch, te)
             ELSE IF StartsWith(line, <<"- ">>) /\ current_section # <<>>
             THEN IF current_section = <<"changes">>
                  THEN ScanSections(Tail(rest), current_section,
                                    Append(ch, Tail(line)), te)
                  ELSE ScanSections(Tail(rest), current_section,
                                    ch, Append(te, Tail(line)))
             ELSE ScanSections(Tail(rest), current_section, ch, te)

ExtractedSections(text) ==
    ScanSections(ScannedLines(SplitNL(text)), <<>>, <<>>, <<>>)

\* Lines of an LLM text: a title, the two markers, a marker with more text
\* after it, two bullets, a bullet without text, an indented bullet, plain
\* text.
TextLines ==
    { <<"# ", "t">>, <<"## Changes">>, <<"## Testing">>,
      <<"## Changes", " ", "x">>, <<"- ", "x">>, <<"- ", "y">>, <<"- ">>,
      <<" ", "- ", "x">>, <<"x">> }

ResponseTexts == { JoinNL(ls) : ls \in SeqsUpTo(TextLines, MaxTextLines) }

XInit ==
    /\ xpc = "response"
    /\ response_text \in ResponseTexts
    /\ title = <<>> /\ changes = <<>> /\ testing = <<>>

\* "if not response or not response.text": HTTPException(500)
EmptyResponse ==
    /\ xpc = "response" /\ response_text = <<>>
    /\ xpc' = "failed"
    /\ UNCHANGED <<response_text, title, changes, testing>>
    /\ UNCHANGED <<svars, fvars, cvars, rvars>>

\* The text is split, the title taken from its first line, the other lines
\* scanned, and the PRResponse returned.
ExtractSections ==
    /\ xpc = "response" /\ response_text # <<>>
    /\ title' = RemoveHashBlank(Head(SplitNL(response_text)))
    /\ changes' = ExtractedSections(response_text).changes
    /\ testing' = ExtractedSections(response_text).testing
    /\ xpc' = "returned"
    /\ UNCHANGED response_text
    /\ UNCHANGED <<svars, fvars, cvars, rvars>>

XNext == EmptyResponse \/ ExtractSections

(***************************************************************************)
(* client.py: one run of main (lines 136-175)                              *)
(***************************************************************************)
\* What a run can meet.
\*   args:     whether argparse accepts the command line
\*   is_dir:   os.path.isdir(args.repo_path)
\*   git:      the path is inside a work tree; inside a repository but not
\*             in a work tree (a bare repository, a .git directory); in no
\*             repository; or there is no git program
\*   service:  the service answers with a description; cannot be reached;
\*             answers with an error status; answers with a body that is
\*             not JSON or has no "description"
\*   output_file: whether --output-file was given
\*   writable: whether the output file can be opened for writing
Environments ==
    [ args        : {"ok", "usage_error"},
      is_dir      : BOOLEAN,
      git         : {"work_tree", "no_work_tree", "not_repo", "no_git"},
      service     : {"ok", "unreachable", "error_status", "bad_body"},
      output_file : BOOLEAN,
      writable    : BOOLEAN ]

\* The environment of a run in which nothing goes wrong.
QuietEnvironment ==
    [ args |-> "ok", is_dir |-> TRUE, git |-> "work_tree", service |-> "ok",
      output_file |-> FALSE, writable |-> TRUE ]

\* Exit status of "git rev-parse --is-inside-work-tree": 0 anywhere inside
\* a repository (it prints "true" or "false"), 128 outside of one.
RevParseStatus(g) == IF g = "not_repo" THEN 128 ELSE 0

\* Descriptions the service answers with.
ServedTexts == { <<"a">>, <<"a", "\n", "commit">>, <<>> }

RInit ==
    /\ rpc = "start"
    /\ env \in Environments
    /\ exit_code = -1
    /\ requests_sent = 0
    /\ fetched_description = <<>>
    /\ out_file = <<>>
    /\ stdout = <<>>

\* sys.exit(code), and the end of Python on an exception nobody catches
\* (exit code 1).
Exit(code) == rpc' = "exited" /\ exit_code' = code

\* parser.parse_args(): argparse ends the process with exit code 2 on a
\* command line it does not accept.
ParseArgs ==
    /\ rpc = "start"
    /\ IF env.args = "usage_error" THEN Exit(2)
       ELSE rpc' = "parsed" /\ UNCHANGED exit_code
    /\ UNCHANGED <<env, requests_sent, fetched_description, out_file, stdout>>
    /\ UNCHANGED <<svars, fvars, cvars, xvars>>

\* "if not os.path.isdir(args.repo_path)"
ValidateDir ==
    /\ rpc = "parsed"
    /\ IF ~env.is_dir THEN Exit(1)
       ELSE rpc' = "dir_ok" /\ UNCHANGED exit_code
    /\ UNCHANGED <<env, requests_sent, fetched_description, out_file, stdout>>
    /\ UNCHANGED <<svars, fvars, cvars, xvars>>

\* subprocess.run([git ... rev-parse --is-inside-work-tree], check=True):
\* CalledProcessError on a non-zero status is caught and ends the run with
\* sys.exit(1); FileNotFoundError without a git program is not caught; the
\* captured output is not looked at.
ValidateGit ==
    /\ rpc = "dir_ok"
    /\ IF env.git = "no_git" \/ RevParseStatus(env.git) # 0 THEN Exit(1)
       ELSE rpc' = "git_ok" /\ UNCHANGED exit_code
    /\ UNCHANGED <<env, requests_sent, fetched_description, out_file, stdout>>
    /\ UNCHANGED <<svars, fvars, cvars, xvars>>

\* generate_pr_description: requests.post, raise_for_status, json(),
\* data['description']; every exception ends the run with sys.exit(1).
RequestDescription ==
    /\ rpc = "git_ok"
    /\ requests_sent' = requests_sent + 1
    /\ IF env.service = "ok"
       THEN /\ \E d \in ServedTexts : fetched_description' = <<d>>
            /\ rpc' = "fetched"
            /\ UNCHANGED exit_code
       ELSE Exit(1) /\ UNCHANGED fetched_description
    /\ UNCHANGED <<env, out_file, stdout>>
    /\ UNCHANGED <<svars, fvars, cvars, xvars>>

\* "if args.output_file: write_pr_description(...)", no ticket and no
\* template on the command line; main returns, or open() raises.
WriteOutput ==
    /\ rpc = "fetched" /\ env.output_file
    /\ IF env.writable
       THEN /\ out_file' =
                   <<WritePrDescription(fetched_description[1], <<>>, <<>>)>>
            /\ Exit(0)
       ELSE Exit(1) /\ UNCHANGED out_file
    /\ UNCHANGED <<env, requests_sent, fetched_description, stdout>>
    /\ UNCHANGED <<svars, fvars, cvars, xvars>>

\* "else: print(pr_description)", and main returns.
PrintOutput ==
    /\ rpc = "fetched" /\ ~env.output_file
    /\ stdout' = fetched_description
    /\ Exit(0)
    /\ UNCHANGED <<env, requests_sent, fetched_description, out_file>>
    /\ UNCHANGED <<svars, fvars, cvars, xvars>>

RNext ==
    \/ ParseArgs
    \/ ValidateDir
    \/ ValidateGit
    \/ RequestDescription
    \/ WriteOutput
    \/ PrintOutput

\* No post-processing, no client run and no extraction are under way.
FIdle == fpc = "idle" /\ raw = <<>> /\ filtered = <<>> /\ refiltered = <<>>

CIdle ==
    /\ cpc = "idle" /\ description = <<>> /\ jira_ticket = <<>>
    /\ template = <<>> /\ output_file = FALSE /\ processed = <<>>
    /\ printed = <<>> /\ file = <<>> /\ file2 = <<>>

XIdle ==
    /\ xpc = "idle" /\ response_text = <<>>
    /\ title = <<>> /\ changes = <<>> /\ testing = <<>>

RIdle ==
    /\ rpc = "idle" /\ env = QuietEnvironment /\ exit_code = -1
    /\ requests_sent = 0 /\ fetched_description = <<>> /\ out_file = <<>>
    /\ stdout = <<>>

Init == SInit /\ FIdle /\ CIdle /\ XIdle /\ RIdle

Next == SNext

\* The request handlers idle: the state of SInit with no request.
SIdle ==
    /\ variant = "main" /\ history = <<>> /\ num_commits = 0
    /\ pc = "idle" /\ git = "pending" /\ commits = <<>>
    /\ common_prefix = <<>> /\ cleaned_commits = <<>>
    /\ commits_text = <<>> /\ commit_text = <<>> /\ attempt = 0
    /\ retry_delay = InitialRetryDelay /\ outcomes = <<>> /\ sleeps = <<>>
    /\ status = 0

ServerInit == SIdle /\ FInit /\ CIdle /\ XIdle /\ RIdle

ServerNext == FNext

SpecServer == ServerInit /\ [][ServerNext]_vars

ClientInit == SIdle /\ FIdle /\ CInit /\ XIdle /\ RIdle

ClientNext == CNext

SpecClient == ClientInit /\ [][ClientNext]_vars

ExtractInit == SIdle /\ FIdle /\ CIdle /\ XInit /\ RIdle

ExtractNext == XNext

SpecExtract == ExtractInit /\ [][ExtractNext]_vars

RunInit == SIdle /\ FIdle /\ CIdle /\ XIdle /\ RInit

RunNext == RNext

SpecRun == RunInit /\ [][RunNext]_vars

Spec == Init /\ [][Next]_vars

(***************************************************************************)
(* Claims about the request handlers, checked under Spec                   *)
(***************************************************************************)
RECURSIVE SumSeq(_)
SumSeq(s) == IF s = <<>> THEN 0 ELSE Head(s) + SumSeq(Tail(s))

\* The delays 30, 60, ... of the first k retries.
DoublingDelays(k) == [i \in 1..k |-> 30 * 2 ^ (i - 1)]

LastOutcome == outcomes[Len(outcomes)]

\* C1: in main.py the LLM is called at most 3 times; a call is followed by
\* another one only after a rate-limit error; the sleeps are 30, 60, one per
\* retry; a rate-limit error on the third call, and any other failure
\* (an empty response included) on any call, ends the request at once with a
\* failure, with no sleep after it; a non-empty response ends it with success.
C1_RetryOnlyOnRateLimit ==
    variant = "main" =>
        LET n == Len(outcomes)
        IN  /\ n <= 3
            /\ \A i \in 1..(n - 1) : outcomes[i] = "rate429"
            /\ n = 0 => sleeps = <<>>
            /\ n > 0 /\ LastOutcome \in {"empty", "error"} =>
                   pc = "done" /\ status = 500 /\ sleeps = DoublingDelays(n - 1)
            /\ n = 3 /\ LastOutcome = "rate429" =>
                   pc = "done" /\ status = 500 /\ sleeps = DoublingDelays(2)
            /\ n \in 1..2 /\ LastOutcome = "rate429" =>
                   pc = "generate" /\ status = 0 /\ sleeps = DoublingDelays(n)
            /\ n > 0 /\ LastOutcome = "ok" =>
                   pc = "done" /\ status = 200 /\ sleeps = DoublingDelays(n - 1)

\* C1 witness: the third call hit the rate limit and the request failed.
C1_Witness ==
    /\ variant = "main" /\ pc = "done" /\ status = 500
    /\ outcomes = <<"rate429", "rate429", "rate429">>

AllRateLimited ==
    /\ variant = "main" /\ pc = "done" /\ outcomes # <<>>
    /\ \A i \in 1..Len(outcomes) : outcomes[i] = "rate429"

\* C2 (as claimed): when every LLM attempt of a request hits the rate limit,
\* the retry loop has slept 30+60+120 time-units when the request fails.
C2_TotalSleepClaimed == AllRateLimited => SumSeq(sleeps) = 30 + 60 + 120

\* C2 (amended): when every LLM attempt of a request hits the rate limit, the
\* retry loop has slept 30+60 time-units when the request fails: the third
\* attempt's error is raised without a sleep.
C2_TotalSleep == AllRateLimited => SumSeq(sleeps) = 30 + 60

\* C2 witness: a request that failed with every attempt rate-limited.
C2_Witness == AllRateLimited /\ status = 500 /\ Len(sleeps) = 2

\* C3: when the commit collector finds zero commits, the request fails with
\* a 400-class status and no LLM call was made, in both service variants.
C3_ZeroCommitsRejected ==
    (pc = "done" /\ git = "ok" /\ Selected(history, num_commits) = <<>>) =>
        status \in 400..499 /\ outcomes = <<>>

\* The prompt has been built.
PromptBuilt == pc = "generate" \/ outcomes # <<>>

\* Text before the first colon, without surrounding whitespace.
ClaimedPrefix(c) == Strip(SubSeq(c, 1, IndexOf(c, ":") - 1))

\* The subjects of cs whose prefix is shared with another subject.
Repeating(cs) ==
    {i \in 1..Len(cs) :
        /\ Contains(cs[i], ":")
        /\ \E j \in 1..Len(cs) :
              j # i /\ Contains(cs[j], ":")
                    /\ ClaimedPrefix(cs[j]) = ClaimedPrefix(cs[i])}

\* C9: when at least 2 subjects share the text before their first colon, the
\* earliest repeating prefix is common_prefix and every subject carrying it
\* is replaced by the stripped text after its first colon, the others being
\* unchanged; when no prefix repeats, common_prefix is absent and
\* cleaned_commits is the batch.
C9_PrefixNormalizer ==
    (variant = "main" /\ PromptBuilt) =>
        LET rep == Repeating(commits)
        IN  IF rep = {}
            THEN common_prefix = <<>> /\ cleaned_commits = commits
            ELSE LET p == ClaimedPrefix(commits[Min(rep)])
                 IN  /\ common_prefix = <<p>>
                     /\ Len(cleaned_commits) = Len(commits)
                     /\ \A i \in 1..Len(commits) :
                          cleaned_commits[i] =
                              IF Contains(commits[i], ":")
                                 /\ ClaimedPrefix(commits[i]) = p
                              THEN Strip(SubSeq(commits[i],
                                                IndexOf(commits[i], ":") + 1,
                                                Len(commits[i])))
                              ELSE commits[i]

\* The commit batch of the request, oldest first.
Batch == Selected(history, num_commits)

\* main.py's prompt lists the (prefix-normalised) batch most recent first,
\* numbered from 1.
MainPromptMostRecentFirst ==
    /\ Len(commits_text) = Len(Batch)
    /\ \A i \in 1..Len(Batch) :
          /\ commits_text[i].num = i
          /\ commits_text[i].text =
                 CleanCommit(common_prefix, Batch[Len(Batch) + 1 - i])

FenceLines ==
    {i \in 1..Len(SplitNL(raw)) : Contains(SplitNL(raw)[i], "<fence>")}

\* Those of them that are not template comments.
OpenFenceLines ==
    {i \in FenceLines : ~IsTemplateComment(SplitNL(raw)[i])}

\* The raw text before its line i.
RawBefore(i) == JoinNL(SubSeq(SplitNL(raw), 1, i - 1))

\* The returned text holds nothing of line i of the raw text or of a later
\* line: it is what the sanitizer returns for the text before line i, and
\* it holds no fence.
NothingFrom(i) ==
    /\ filtered = ServerSanitize(RawBefore(i))
    /\ ~Contains(filtered, "<fence>")

\* C8 (as claimed): for every raw text with a line holding a code fence, the
\* sanitized text holds nothing of that line or of a later one, also when
\* the line matches the template-comment pattern.
C8_FenceTruncatesClaimed ==
    (fpc # "raw" /\ FenceLines # {}) => NothingFrom(Min(FenceLines))

\* C8 (amended): for every raw text with a line that holds a code fence and
\* does not match the template-comment pattern, the sanitized text holds
\* nothing of the first such line or of a later one; a fence inside a
\* template comment is removed with its line only.
C8_FenceTruncates ==
    (fpc # "raw" /\ OpenFenceLines # {}) => NothingFrom(Min(OpenFenceLines))

\* C8 witness: a fence line after a first line that is kept, with a line
\* after the fence.
C8_Witness ==
    /\ fpc = "filtered" /\ OpenFenceLines # {} /\ filtered # <<>>
    /\ Min(OpenFenceLines) < Len(SplitNL(raw))
    /\ SplitNL(raw)[Len(SplitNL(raw))] = <<"b">>

\* The server-side post-processing returns its own output unchanged.
ServerIdempotent == fpc = "rerun" => refiltered = filtered

(***************************************************************************)
(* Claims about the client's final description, checked under SpecClient   *)
(***************************************************************************)
ClientDone == cpc \in {"done", "rerun"}

\* The final description: the output file's content, or what was printed.
Final == IF output_file THEN file[1] ELSE printed[1]

\* The number of times token t occurs in s.
Occurrences(s, t) == Cardinality({i \in 1..Len(s) : s[i] = t})

EndsWith(s, suffix) ==
    /\ Len(suffix) <= Len(s)
    /\ SubSeq(s, Len(s) - Len(suffix) + 1, Len(s)) = suffix

\* C4: the final description the client produces, printed or written, has
\* no line matching the forbidden-content pattern (commit, commits, diff,
\* changes:, a code fence; case-insensitive).
C4_NoForbiddenLine ==
    ClientDone =>
        \A i \in 1..Len(SplitNL(Final)) :
            ~Matches(SplitNL(Final)[i], ClientPatternTokens)

\* C5: if a Jira ticket is provided, the final description written by
\* write_pr_description holds the canonical text "Jira ticket: <value>"
\* exactly once, whatever the server text holds.
C5_JiraExactlyOnce ==
    (ClientDone /\ jira_ticket # <<>> /\ output_file) =>
        Occurrences(file[1], final_jira_line) = 1

\* C6 (as claimed): when a template was supplied, the final description
\* written by clean_pr_description_file holds at least one of the four
\* section markers, for every template content and every server text.
C6_TemplateMarkerClaimed ==
    (ClientDone /\ template # <<>> /\ output_file) =>
        Matches(file[1], template_sections)

\* C6 (amended): when a template was supplied and the description is written
\* to the output file, the file holds at least one of the four section
\* markers or ends with a line break followed by the template's content; so
\* it holds a marker whenever the template holds one.
C6_TemplateMarker ==
    (ClientDone /\ template # <<>> /\ output_file) =>
        /\ \/ Matches(file[1], template_sections)
           \/ EndsWith(file[1], <<"\n">> \o template[1])
        /\ Matches(template[1], template_sections) =>
               Matches(file[1], template_sections)

\* C6 witness: a server text without a marker, written with a template
\* that holds one, which was appended.
C6_Witness ==
    /\ cpc = "done" /\ output_file /\ template # <<>>
    /\ description # <<>>
    /\ ~Matches(description, template_sections)
    /\ Matches(template[1], template_sections)
    /\ EndsWith(file[1], <<"\n">> \o template[1])

\* C7: the sanitizer is idempotent: the server-side post-processing applied
\* to its own output, and write_pr_description applied to the file it wrote
\* with the same ticket and template, give the same text again.
C7_Idempotent ==
    /\ ClientDone =>
           ServerPostProcess(ServerSanitize(description))
               = ServerSanitize(description)
    /\ cpc = "rerun" => file2 = file

(***************************************************************************)
(* Claims about the Jira step of write_pr_description, under SpecClient    *)
(***************************************************************************)
\* The Jira step ran: the description was written with a ticket given.
JiraStepDone == ClientDone /\ output_file /\ jira_ticket # <<>>

\* The line holds the bracketed placeholder or the canonical form.
HasJiraContent(line) ==
    Contains(line, "[T]") \/ Contains(line, "Jira ticket: T")

\* The lines of the server text.
ServerLines == SplitLines(description)

\* The line, trimmed, starts with "## Description" in some letter case.
HeadingLine(line) ==
    /\ Strip(line) # <<>>
    /\ Head(Strip(line)) \in {"## Description", "## DESCRIPTION"}

\* The place of the first heading line of the server text, 0 without one.
FirstHeading ==
    IF \E i \in 1..Len(ServerLines) : HeadingLine(ServerLines[i])
    THEN Min({i \in 1..Len(ServerLines) : HeadingLine(ServerLines[i])})
    ELSE 0

\* C12: when a ticket is provided and no line of the server text holds the
\* placeholder or the canonical form, the Jira step yields the server's
\* lines with the one line "Jira ticket: T" put directly after the first
\* "## Description" heading line (any case, trimmed), or put first when
\* there is no heading.
C12_JiraInserted ==
    (JiraStepDone /\ \A i \in 1..Len(ServerLines) :
                         ~HasJiraContent(ServerLines[i])) =>
        processed[1] =
            JoinNL(SubSeq(ServerLines, 1, FirstHeading)
                   \o << <<"Jira ticket: T">> >>
                   \o SubSeq(ServerLines, FirstHeading + 1, Len(ServerLines)))

\* C12 witness: a server text without Jira content whose second line is a
\* heading, indented and in capitals, followed by another heading.
C12_Witness ==
    /\ JiraStepDone /\ cpc = "done"
    /\ description = <<"a", "\n", " ", "## DESCRIPTION", "\n",
                       "## Description">>
    /\ processed[1] = <<"a", "\n", " ", "## DESCRIPTION", "\n",
                        "Jira ticket: T", "\n", "## Description">>

\* The line holds neither the placeholder nor the canonical form.
Plain(line) == ~HasJiraContent(line)

\* The two lines are equal except where the first holds the placeholder.
SameButPlaceholder(line, out) ==
    /\ Len(out) = Len(line)
    /\ \A i \in 1..Len(line) : out[i] = line[i] \/ line[i] = "[T]"

\* C14: the Jira step changes nothing but Jira content.  With a ticket,
\* the lines without placeholder and canonical form come out unchanged and
\* in their order, and the first line that holds one of the two is still
\* there, at its place, changed at most in its placeholders; so only a
\* later line with Jira content can be dropped.  Without a ticket the text
\* is passed on as it is.
C14_JiraFrame ==
    (ClientDone /\ output_file) =>
        IF jira_ticket = <<>>
        THEN processed[1] = description
        ELSE LET out == SplitNL(processed[1])
                 jl  == {i \in 1..Len(ServerLines) :
                            HasJiraContent(ServerLines[i])}
             IN  /\ SelectSeq(out, Plain) = SelectSeq(ServerLines, Plain)
                 /\ jl # {} =>
                       /\ Len(out) >= Min(jl)
                       /\ SameButPlaceholder(ServerLines[Min(jl)],
                                             out[Min(jl)])

\* C14 witness: a plain line, then the placeholder line, then a canonical
\* line, which is the one dropped.
C14_Witness ==
    /\ JiraStepDone /\ cpc = "done"
    /\ description = <<"a", "\n", "[T]", "\n", "Jira ticket: T">>
    /\ processed[1] = <<"a", "\n", "Jira ticket: T">>

(***************************************************************************)
(* Claims about main.py's section extraction, under SpecExtract            *)
(***************************************************************************)
\* The lines of the LLM text.
XLines == SplitNL(response_text)

\* Line i is scanned and starts with one of the two section markers.
IsMarker(i) ==
    /\ i >= 2 /\ XLines[i] # <<>>
    /\ XLines[i][1] \in {"## Changes", "## Testing"}

\* Line i is scanned and starts with "- ".
IsBullet(i) == i >= 2 /\ XLines[i] # <<>> /\ XLines[i][1] = "- "

\* The most recent marker before line i, "none" when there is none.
SectionOf(i) ==
    LET ms == {j \in 2..(i - 1) : IsMarker(j)}
    IN  IF ms = {} THEN "none"
        ELSE LET m == CHOOSE j \in ms : \A k \in ms : k <= j
             IN  IF XLines[m][1] = "## Changes" THEN "changes"
                 ELSE "testing"

\* The bullets under the marker, in order, without their "- ".
BulletsOf(section) ==
    LET idx == SelectSeq([i \in 1..Len(XLines) |-> i],
                         LAMBDA i : IsBullet(i) /\ SectionOf(i) = section)
    IN  [k \in 1..Len(idx) |-> Tail(XLines[idx[k]])]

\* C13: changes is exactly the in-order sequence of the bullets whose most
\* recent preceding marker is "## Changes", testing the same for
\* "## Testing"; the first line of the text counts neither as marker nor
\* as bullet; a text without marker gives two empty lists, and only an
\* empty text gives an error.
C13_Sections ==
    /\ xpc = "returned" =>
          /\ changes = BulletsOf("changes")
          /\ testing = BulletsOf("testing")
          /\ (\A i \in 1..Len(XLines) : ~IsMarker(i)) =>
                 changes = <<>> /\ testing = <<>>
    /\ xpc = "failed" => response_text = <<>>

\* C13 witness: the first line is a marker and is not scanned, so the
\* bullet after it is in neither list; the one after the second marker is
\* in changes.
C13_Witness ==
    /\ xpc = "returned"
    /\ response_text = <<"## Changes", "\n", "- ", "x", "\n",
                         "## Changes", " ", "x", "\n", "- ", "y">>
    /\ changes = << <<"y">> >>
    /\ testing = <<>>

(***************************************************************************)
(* Claims about a run of client.py, under SpecRun                          *)
(***************************************************************************)
\* The pre-flight validation of the claim: the path is a directory and a
\* git working tree.
PreflightFails == ~env.is_dir \/ env.git # "work_tree"

\* The run meets something that is to end it with exit code 1.
RunFails ==
    \/ PreflightFails
    \/ env.service # "ok"
    \/ env.output_file /\ ~env.writable

\* C11: a run whose command line was accepted ends with exit code 1 when
\* the path is not a directory, is not a git working tree, the service is
\* unreachable or answers with an error status, or another runtime error
\* occurs, and with exit code 0 otherwise; when the pre-flight validation
\* fails, no request has been sent and no output file written.
C11_ExitCodes ==
    (rpc = "exited" /\ env.args = "ok") =>
        /\ exit_code = IF RunFails THEN 1 ELSE 0
        /\ PreflightFails => requests_sent = 0 /\ out_file = <<>>

====
